---- MODULE Spec2Model ----
(***************************************************************************)
(* A model of the maximum-likelihood estimation core of the repository:    *)
(*   - NLLS (src/nlls.py): parameter layout, likelihood evaluation, the    *)
(*     fit driver and its degrees-of-freedom bookkeeping;                  *)
(*   - GeneralizedError2 and GARCH2 (src/my_library.py): the bounds and    *)
(*     constraints policies.                                               *)
(* Floating-point values are modelled exactly: rationals, square roots of  *)
(* rationals, the two infinities and nan.                                  *)
(***************************************************************************)
EXTENDS Integers, Sequences, FiniteSets, TLC

(***************************************************************************)
(* Bounds of the model.                                                    *)
(***************************************************************************)
\* largest number of mean-process regressors (columns of exog)
MaxK == 2
\* largest number of extra shape parameters (extra_params_names)
MaxE == 1
\* largest number of observations
MaxN == 2
\* largest order p, o, q of the volatility model
MaxOrder == 2
\* trial points of the shape parameter reach this far outside its bounds
XSpan == 2

(***************************************************************************)
(* Program constants.                                                      *)
(***************************************************************************)
zero == 0
one == 1
GedLower == 0
GedUpper == 100

DefaultMaxIter == 1000

\* Python's None, and a value that is present: an optional value is a sequence of
\* length 0 or 1
None == <<>>
Some(x) == <<x>>

(***************************************************************************)
(* Numbers.  A float is one of                                             *)
(*   [k |-> "q", n, d]     the rational n/d, d > 0, in lowest terms        *)
(*   [k |-> "sqrt", n, d]  the square root of the rational n/d, where n/d  *)
(*                         is not the square of a rational                 *)
(*   [k |-> "inf", n, d]   n = 1: +inf, n = -1: -inf   (d = 0)             *)
(*   [k |-> "nan", n, d]   (n = 0, d = 0)                                  *)
(***************************************************************************)
Abs(i) == IF i < 0 THEN -i ELSE i

RECURSIVE GCD(_, _)
GCD(a, b) == IF b = 0 THEN a ELSE GCD(b, a % b)

Q(n, d) ==
    LET s == IF d < 0 THEN -1 ELSE 1
        g == GCD(Abs(n), Abs(d))
    IN  [k |-> "q", n |-> (s * n) \div g, d |-> (s * d) \div g]

I(i) == Q(i, 1)
PosInf == [k |-> "inf", n |-> 1, d |-> 0]
NegInf == [k |-> "inf", n |-> -1, d |-> 0]
NaN == [k |-> "nan", n |-> 0, d |-> 0]

IsQ(x) == x.k = "q"

Neg(x) ==
    CASE x.k = "q" -> Q(-x.n, x.d)
      [] x.k = "inf" -> [x EXCEPT !.n = -x.n]
      [] OTHER -> NaN

Add(x, y) ==
    CASE IsQ(x) /\ IsQ(y) -> Q(x.n * y.d + y.n * x.d, x.d * y.d)
      [] x.k = "inf" /\ IsQ(y) -> x
      [] IsQ(x) /\ y.k = "inf" -> y
      [] x.k = "inf" /\ y.k = "inf" /\ x.n = y.n -> x
      [] OTHER -> NaN

Sub(x, y) == Add(x, Neg(y))

Mul(x, y) ==
    CASE IsQ(x) /\ IsQ(y) -> Q(x.n * y.n, x.d * y.d)
      [] OTHER -> NaN

\* IEEE division as numpy performs it: x/0 is +inf, -inf or nan, never an error
Div(x, y) ==
    CASE IsQ(x) /\ IsQ(y) /\ y.n # 0 -> Q(x.n * y.d, x.d * y.n)
      [] IsQ(x) /\ IsQ(y) /\ y.n = 0 ->
            IF x.n > 0 THEN PosInf ELSE IF x.n < 0 THEN NegInf ELSE NaN
      [] OTHER -> NaN

IsSquare(n) == \E r \in 0..n : r * r = n
ISqrt(n) == CHOOSE r \in 0..n : r * r = n

\* the square root of a rational x >= 0
Sqrt(x) ==
    IF IsSquare(x.n) /\ IsSquare(x.d)
    THEN Q(ISqrt(x.n), ISqrt(x.d))
    ELSE [k |-> "sqrt", n |-> x.n, d |-> x.d]

\* l <= r * q * q for l, r >= 0 and q >= 1, forming r * q * q only when it decides
LeqMulSq(l, r, q) ==
    IF r = 0 THEN l <= 0
    ELSE IF l <= r * q THEN TRUE
    ELSE l <= r * q * q

\* r * q * q <= l for l, r >= 0 and q >= 1
MulSqLeq(r, q, l) ==
    IF r = 0 THEN TRUE
    ELSE IF r * q > l THEN FALSE
    ELSE r * q * q <= l

\* x <= y
Leq(x, y) ==
    CASE x.k = "nan" \/ y.k = "nan" -> FALSE
      [] x.k = "inf" -> x.n = -1 \/ y = PosInf
      [] y.k = "inf" -> y.n = 1
      [] IsQ(x) /\ IsQ(y) -> x.n * y.d <= y.n * x.d
      [] x.k = "sqrt" /\ y.k = "sqrt" -> x.n * y.d <= y.n * x.d
      \* sqrt(n/d) <= p/q  iff  p >= 0 and n*q*q <= p*p*d
      [] x.k = "sqrt" /\ IsQ(y) -> y.n >= 0 /\ MulSqLeq(x.n, y.d, y.n * y.n * x.d)
      \* p/q <= sqrt(n/d)  iff  p <= 0 or p*p*d <= n*q*q
      [] IsQ(x) /\ y.k = "sqrt" -> x.n <= 0 \/ LeqMulSq(x.n * x.n * y.d, y.n, x.d)

Lt(x, y) == Leq(x, y) /\ x # y

(***************************************************************************)
(* Python lists: 0-based indices and slices over 1-based sequences.        *)
(***************************************************************************)
Min(a, b) == IF a < b THEN a ELSE b
Max(a, b) == IF a > b THEN a ELSE b

\* a slice bound, clipped the way Python clips it
PyBound(i, len) == IF i < 0 THEN Max(i + len, 0) ELSE Min(i, len)

\* s[lo:hi]
PySlice(s, lo, hi) == SubSeq(s, PyBound(lo, Len(s)) + 1, PyBound(hi, Len(s)))

\* s[lo:]
PySliceFrom(s, lo) == SubSeq(s, PyBound(lo, Len(s)) + 1, Len(s))

\* whether s[i] exists
PyHas(s, i) == -Len(s) <= i /\ i < Len(s)

\* s[i], for an index that exists
PyItem(s, i) == IF i < 0 THEN s[i + Len(s) + 1] ELSE s[i + 1]

\* [x]*n
Repeat(x, n) == [i \in 1..n |-> x]

RECURSIVE SumSeq(_)
SumSeq(s) == IF s = <<>> THEN I(0) ELSE Add(s[1], SumSeq(Tail(s)))

(***************************************************************************)
(* The state.                                                              *)
(***************************************************************************)
VARIABLES
    \* an NLLS instance: its attributes
    endog, exog, latent_variables, exog_names, nparams, k_constant,
    df_resid, df_model, params, mean, innovation,
    \* the caller's position: "idle", or "optimizing" inside fit's optimizer call
    pc,
    \* the arguments of the optimizer call in progress and its evaluation count
    opt,
    \* the last completed call: [op, exc, ret]
    last,
    \* a Parameter Layout instance and the vector split on it
    lay,
    \* a GeneralizedError2 instance's last results, and a trial shape value
    ged, gedx,
    \* a GARCH2 instance: orders, the inherited system and the last result
    garch

nlls == <<endog, exog, latent_variables, exog_names, nparams, k_constant,
          df_resid, df_model, params, mean, innovation, pc, opt, last>>
vars == <<nlls, lay, ged, gedx, garch>>

(***************************************************************************)
(* NLLS.__init__                                                           *)
(***************************************************************************)
\* self.epsilon = 1e-7
epsilon == Q(1, 10000000)

\* exog.shape[1] of a design matrix held as a sequence of rows
Shape1(x) == Len(x[1])

\* if exog is None: exog = np.ones(endog.shape[0])
InitExog(endog_, exogArg) ==
    IF exogArg = None THEN [i \in 1..Len(endog_) |-> <<I(1)>>] ELSE exogArg[1]

SigmaName == <<"sigma", 0>>

\* self.latent_variables = ['sigma'] + extra_params_names
LatentVariables(extra_params_names) == <<SigmaName>> \o extra_params_names

\* the base class names the regressors and appends the extra parameter names
ExogNames(exog_, latent) == [j \in 1..Shape1(exog_) |-> <<"x", j>>] \o latent

\* the base class: nparams = len(exog_names)
NParams(names) == Len(names)

\* the base class: 1 when a column of the design matrix is a non-zero constant
KConstant(exog_) ==
    IF \E j \in 1..Shape1(exog_) :
          /\ exog_[1][j] # I(0)
          /\ \A i \in 1..Len(exog_) : exog_[i][j] = exog_[1][j]
    THEN 1 ELSE 0

\* the base class: observations less mean-process coefficients
BaseDfResid(endog_, exog_) == Len(endog_) - Shape1(exog_)

\* self.df_resid -= len(self.latent_variables)
DfResidTwice(base, latent) == base - 2 * Len(latent)
DfResid(base, latent) == base - Len(latent)

\* self.df_model = self.nparams - self.k_constant
DfModel(nparams_, k_constant_) == nparams_ - k_constant_

(***************************************************************************)
(* NLLS._pick_params: [exc, beta, sigma, extra].  The caller stores params *)
(* as self.params once the assertion has passed.                           *)
(***************************************************************************)
NoSplit(e) == [exc |-> e, beta |-> <<>>, sigma |-> NaN, extra |-> <<>>]

\* assert len(params) == self.nparams
PickAssert(p, nparams_) == Len(p) = nparams_

\* extra = list(params[-n+1:])
PickExtraFromSigma(p, n) == PySliceFrom(p, -n)
PickExtra(p, n) == PySliceFrom(p, -n + 1)

pick_params(p, nparams_, latent) ==
    LET n == Len(latent)
    IN  IF ~PickAssert(p, nparams_) THEN NoSplit("AssertionError")
        ELSE IF n > 1 THEN
            IF ~PyHas(p, -n) THEN NoSplit("IndexError")
            ELSE [exc |-> "none", beta |-> PySlice(p, 0, -n),
                  sigma |-> PyItem(p, -n), extra |-> PickExtra(p, n)]
        ELSE IF n = 1 THEN
            IF ~PyHas(p, -1) THEN NoSplit("IndexError")
            ELSE [exc |-> "none", beta |-> PySlice(p, 0, -1),
                  sigma |-> PyItem(p, -1), extra |-> <<>>]
        ELSE NoSplit("ValueError")

\* self.params after _pick_params(p) on an instance holding `old`
\* ("memorialize parameters": the assignment follows the assertion)
Memorialized(old, p, nparams_) ==
    IF PickAssert(p, nparams_) THEN Some(p) ELSE old

(***************************************************************************)
(* NLLS.predict and NLLS.nloglikeobs                                       *)
(***************************************************************************)
\* np.dot(x, b) for a matrix x (a sequence of rows) and a vector b
Dot(x, b) ==
    [i \in 1..Len(x) |-> SumSeq([j \in 1..Len(b) |-> Mul(x[i][j], b[j])])]

\* predict on an instance whose self.params is `held`:
\* [exc, params (self.params afterwards), ret (the mean vector)]
predict(held, exogArg, paramsArg) ==
    IF paramsArg = None /\ held = None
    THEN [exc |-> "AttributeError", params |-> held, ret |-> None]
    ELSE
        LET p == IF paramsArg # None THEN paramsArg[1] ELSE held[1]
            r == pick_params(p, nparams, latent_variables)
            x == IF exogArg # None THEN exogArg[1] ELSE exog
        IN  IF r.exc # "none"
            THEN [exc |-> r.exc, params |-> Memorialized(held, p, nparams),
                  ret |-> None]
            ELSE IF Shape1(x) # Len(r.beta)
            THEN [exc |-> "ValueError", params |-> Some(p), ret |-> None]
            ELSE [exc |-> "none", params |-> Some(p),
                  ret |-> Some(Dot(x, r.beta))]

\* nloglikeobs(p) on an instance holding (held, mean, innovation):
\* [exc, params, mean, innovation, ret]
nloglikeobs(held, p) ==
    LET r == pick_params(p, nparams, latent_variables)
    IN  IF r.exc # "none"
        THEN [exc |-> r.exc, params |-> Memorialized(held, p, nparams),
              mean |-> mean, innovation |-> innovation, ret |-> None]
        ELSE
            LET pr == predict(Some(p), None, None)
            IN  IF pr.exc # "none"
                THEN [exc |-> pr.exc, params |-> pr.params,
                      mean |-> mean, innovation |-> innovation, ret |-> None]
                ELSE
                    LET m == pr.ret[1]
                        resid == [i \in 1..Len(endog) |-> Sub(endog[i], m[i])]
                    IN  [exc |-> "none", params |-> pr.params,
                         mean |-> Some(m),
                         innovation |->
                            Some([i \in 1..Len(endog) |-> Div(resid[i], r.sigma)]),
                         \* -distribution(*extra, loc=zero, scale=sigma).logpdf(resid)
                         ret |-> Some([shape |-> r.extra, loc |-> I(zero),
                                       scale |-> r.sigma, x |-> resid])]

(***************************************************************************)
(* NLLS.fit: defaults, validation, the optimizer call, the Fitted Result   *)
(***************************************************************************)
\* endog.mean()
Mean(y) == Div(SumSeq(y), I(Len(y)))

\* endog.std(): sqrt(mean(abs(y - y.mean())**2))
Std(y) ==
    LET m == Mean(y)
        dev2 == [i \in 1..Len(y) |-> Mul(Sub(y[i], m), Sub(y[i], m))]
    IN  Sqrt(Div(SumSeq(dev2), I(Len(y))))

\* start_params = [zero]*K + [std] + [one]*(len(latent)-1); [0] = mean if k_constant
DefaultStartNoMean ==
    Repeat(I(zero), Shape1(exog)) \o <<Std(endog)>>
        \o Repeat(I(one), Len(latent_variables) - 1)
DefaultStart ==
    LET s == Repeat(I(zero), Shape1(exog)) \o <<Std(endog)>>
                \o Repeat(I(one), Len(latent_variables) - 1)
    IN  IF k_constant # 0 THEN [s EXCEPT ![1] = Mean(endog)] ELSE s

\* bounds = [(-inf,inf)]*K + [(epsilon,inf)] + [(-inf,inf)]*(len(latent)-1)
DefaultBoundsSigmaLast ==
    Repeat(<<NegInf, PosInf>>, Shape1(exog))
        \o Repeat(<<NegInf, PosInf>>, Len(latent_variables) - 1)
        \o <<(<<epsilon, PosInf>>)>>
DefaultBounds ==
    Repeat(<<NegInf, PosInf>>, Shape1(exog)) \o <<(<<epsilon, PosInf>>)>>
        \o Repeat(<<NegInf, PosInf>>, Len(latent_variables) - 1)

\* assert len(start_params) == self.nparams; assert len(bounds) == self.nparams
FitAssertStartOnly(start, bnds) == Len(start) = nparams
FitAssert(start, bnds) == Len(start) = nparams /\ Len(bnds) = nparams

\* Bounds(*list(zip(*bounds))): the lower bounds and the upper bounds
MakeBounds(bnds) ==
    [lb |-> [i \in 1..Len(bnds) |-> bnds[i][1]],
     ub |-> [i \in 1..Len(bnds) |-> bnds[i][2]]]

\* dict(zip(names, values)): zip stops at the shorter, a later key wins
DictZip(names, values) ==
    LET m == Min(Len(names), Len(values))
    IN  [nm \in {names[i] : i \in 1..m} |->
            values[CHOOSE i \in 1..m :
                      names[i] = nm /\ \A j \in (i + 1)..m : names[j] # nm]]

\* no optimizer call in progress
NoOpt == [given_start |-> None, given_bounds |-> None, start_params |-> <<>>,
          bounds |-> <<>>, lb |-> <<>>, ub |-> <<>>, maxiter |-> 0,
          evaluated |-> FALSE]

(***************************************************************************)
(* Inputs.                                                                 *)
(***************************************************************************)
\* responses of n observations: a constant series (all c) or a trend (c, c+1, ...)
EndogLevels == {0, 1}
Responses(n) ==
    {[i \in 1..n |-> I(c)] : c \in EndogLevels}
        \cup {[i \in 1..n |-> I(c + i - 1)] : c \in EndogLevels}

\* first entries of the parameter vectors handed to the estimator
Seeds == {0, 1}

\* the parameter vector of length n with entries s, s+1, ..., all distinct
Vec(n, s) == [i \in 1..n |-> I(s + i - 1)]

\* lengths a caller may get wrong by one
NearLengths == {nparams - 1, nparams, nparams + 1}

ParamVecs == {Vec(nparams, s) : s \in Seeds} \cup {Vec(m, 0) : m \in NearLengths}
FullVecs(n) == {Vec(n, s) : s \in Seeds}
UserBounds == {Repeat(<<I(0), PosInf>>, m) : m \in NearLengths}

\* design matrices of n rows: a column is constant (ones) or a ramp (1, 2, ..., n)
Designs(n) ==
    UNION {{[i \in 1..n |-> [j \in 1..K |-> IF c[j] = 0 THEN I(1) ELSE I(i)]] :
                c \in [1..K -> {0, 1}]} : K \in 0..MaxK}

\* another design matrix with the instance's number of columns, for predict
AltExog == <<Repeat(I(2), Shape1(exog))>>

ExtraNames(E) == [j \in 1..E |-> <<"extra", j>>]

\* the other components, not part of an estimator run
Unused == [used |-> FALSE]

(***************************************************************************)
(* The estimator: construction and its operations.                         *)
(***************************************************************************)
Init ==
    /\ \E n \in 1..MaxN : \E y \in Responses(n) :
       \E exogArg \in {None} \cup {Some(x) : x \in Designs(n)} :
       \E E \in 0..MaxE :
          /\ endog = y
          /\ exog = InitExog(endog, exogArg)
          /\ latent_variables = LatentVariables(ExtraNames(E))
    /\ exog_names = ExogNames(exog, latent_variables)
    /\ nparams = NParams(exog_names)
    /\ k_constant = KConstant(exog)
    /\ df_resid = DfResid(BaseDfResid(endog, exog), latent_variables)
    /\ df_model = DfModel(nparams, k_constant)
    /\ params = None
    /\ mean = None
    /\ innovation = None
    /\ pc = "idle"
    /\ opt = NoOpt
    /\ last = [op |-> "__init__", exc |-> "none", ret |-> None]
    /\ lay = Unused
    /\ ged = Unused
    /\ gedx = 0
    /\ garch = Unused

Frozen == <<endog, exog, latent_variables, exog_names, nparams, k_constant,
            df_resid, df_model>>
Others == <<lay, ged, gedx, garch>>

Predict(exogArg, paramsArg) ==
    /\ pc = "idle"
    /\ LET r == predict(params, exogArg, paramsArg)
       IN  /\ params' = r.params
           /\ last' = [op |-> "predict", exc |-> r.exc, ret |-> r.ret]
    /\ UNCHANGED <<Frozen, mean, innovation, pc, opt, Others>>

NLogLikeObs(p) ==
    /\ pc = "idle"
    /\ LET r == nloglikeobs(params, p)
       IN  /\ params' = r.params
           /\ mean' = r.mean
           /\ innovation' = r.innovation
           /\ last' = [op |-> "nloglikeobs", exc |-> r.exc, ret |-> r.ret]
    /\ UNCHANGED <<Frozen, pc, opt, Others>>

\* fit up to the optimizer call: defaults, the two assertions, the arguments;
\* while the call runs, last holds [op |-> "fit"] with nothing returned yet
Fit(startArg, boundsArg, maxiter) ==
    /\ pc = "idle"
    /\ LET start == IF startArg = None THEN DefaultStart ELSE startArg[1]
           bnds == IF boundsArg = None THEN DefaultBounds ELSE boundsArg[1]
       IN  IF ~FitAssert(start, bnds)
           THEN /\ last' = [op |-> "fit", exc |-> "AssertionError", ret |-> None]
                /\ UNCHANGED <<pc, opt>>
           ELSE /\ pc' = "optimizing"
                /\ opt' = [given_start |-> startArg, given_bounds |-> boundsArg,
                           start_params |-> start, bounds |-> bnds,
                           lb |-> MakeBounds(bnds).lb, ub |-> MakeBounds(bnds).ub,
                           maxiter |-> maxiter, evaluated |-> FALSE]
                /\ last' = [op |-> "fit", exc |-> "none", ret |-> None]
    /\ UNCHANGED <<Frozen, params, mean, innovation, Others>>

\* the optimizer evaluates the likelihood at a point of the start vector's dimension
OptimizerEval(p) ==
    /\ pc = "optimizing"
    /\ LET r == nloglikeobs(params, p)
       IN  /\ params' = r.params
           /\ mean' = r.mean
           /\ innovation' = r.innovation
           /\ IF r.exc = "none"
              THEN /\ opt' = [opt EXCEPT !.evaluated = TRUE]
                   /\ UNCHANGED <<pc, last>>
              ELSE /\ opt' = NoOpt
                   /\ pc' = "idle"
                   /\ last' = [op |-> "fit", exc |-> r.exc, ret |-> None]
    /\ UNCHANGED <<Frozen, Others>>

\* f.named_params = dict(zip(self.exog_names, self.params))
NamedParams == DictZip(exog_names, params[1])

\* the optimizer returns xopt; fit packages the Fitted Result
FitReturn(xopt) ==
    /\ pc = "optimizing"
    /\ opt.evaluated
    /\ pc' = "idle"
    /\ opt' = NoOpt
    /\ last' = [op |-> "fit", exc |-> "none",
                ret |-> Some([params |-> xopt,
                              named_params |-> NamedParams,
                              num_params |-> Cardinality(DOMAIN NamedParams)])]
    /\ UNCHANGED <<Frozen, params, mean, innovation, Others>>

\* the optimizer fails; the error reaches fit's caller unmodified
FitRaise ==
    /\ pc = "optimizing"
    /\ pc' = "idle"
    /\ opt' = NoOpt
    /\ last' = [op |-> "fit", exc |-> "OptimizerError", ret |-> None]
    /\ UNCHANGED <<Frozen, params, mean, innovation, Others>>

StartArgs == {None} \cup {Some(v) : v \in ParamVecs}
BoundsArgs == {None} \cup {Some(b) : b \in UserBounds}

Next ==
    \/ \E exogArg \in {None, Some(AltExog)}, paramsArg \in StartArgs :
          Predict(exogArg, paramsArg)
    \/ \E p \in ParamVecs : NLogLikeObs(p)
    \/ \E startArg \in StartArgs, boundsArg \in BoundsArgs :
          Fit(startArg, boundsArg, DefaultMaxIter)
    \/ \E p \in FullVecs(Len(opt.start_params)) : OptimizerEval(p)
    \/ \E xopt \in FullVecs(Len(opt.start_params)) : FitReturn(xopt)
    \/ FitRaise

Spec == Init /\ [][Next]_vars

(***************************************************************************)
(* Parameter Layout on its own: _pick_params applied to any vector of any  *)
(* length, on an instance with K regressors and E extra parameters.        *)
(***************************************************************************)
LayoutVals == {0, 1, 2}
LayoutVecs == UNION {[1..m -> LayoutVals] : m \in 0..(MaxK + MaxE + 2)}

\* the other components while one component runs on its own
NllsUnused ==
    /\ endog = <<>> /\ exog = <<>> /\ latent_variables = <<>> /\ exog_names = <<>>
    /\ nparams = 0 /\ k_constant = 0 /\ df_resid = 0 /\ df_model = 0
    /\ params = None /\ mean = None /\ innovation = None
    /\ pc = "unused" /\ opt = NoOpt
    /\ last = [op |-> "none", exc |-> "none", ret |-> None]

InitLayout ==
    /\ NllsUnused
    /\ \E K \in 0..MaxK, E \in 0..MaxE, v \in LayoutVecs :
          LET latent == LatentVariables(ExtraNames(E))
          IN  lay = [used |-> TRUE, K |-> K, E |-> E, latent |-> latent,
                     nparams |-> NParams(ExogNames(<<Repeat(I(1), K)>>, latent)),
                     v |-> v, params |-> None, done |-> FALSE,
                     r |-> NoSplit("none")]
    /\ ged = Unused
    /\ gedx = 0
    /\ garch = Unused

Split ==
    /\ lay.used /\ ~lay.done
    /\ lay' = [lay EXCEPT !.done = TRUE,
                          !.r = pick_params(lay.v, lay.nparams, lay.latent),
                          !.params = Memorialized(lay.params, lay.v, lay.nparams)]
    /\ UNCHANGED <<nlls, ged, gedx, garch>>

NextLayout == Split

SpecLayout == InitLayout /\ [][NextLayout]_vars

(***************************************************************************)
(* GeneralizedError2: bounds and constraints of the shape parameter.       *)
(***************************************************************************)
\* return [(0e0, 1e2)]
GED_bounds(args) == <<(<<GedLower, GedUpper>>)>>

\* return np.array([[1], [-1]]), np.array([bounds()[0][0], -bounds()[0][1]])
GED_constraintsUnsigned(args) ==
    [A |-> <<(<<1>>), (<<-1>>)>>,
     b |-> <<GED_bounds(<<>>)[1][1], GED_bounds(<<>>)[1][2]>>]
GED_constraints(args) ==
    [A |-> <<(<<1>>), (<<-1>>)>>,
     b |-> <<GED_bounds(<<>>)[1][1], -GED_bounds(<<>>)[1][2]>>]

\* what a caller may pass: both methods take *args and ignore them
GedArgs == {<<>>, <<1>>, <<1, 2>>}

InitGED ==
    /\ NllsUnused
    /\ lay = Unused
    /\ ged = [used |-> TRUE, bounds |-> None, constraints |-> None]
    /\ gedx \in (GedLower - XSpan)..(GedUpper + XSpan)
    /\ garch = Unused

GedBounds(args) ==
    /\ ged.used
    /\ ged' = [ged EXCEPT !.bounds = Some(GED_bounds(args))]
    /\ UNCHANGED <<nlls, lay, gedx, garch>>

GedConstraints(args) ==
    /\ ged.used
    /\ ged' = [ged EXCEPT !.constraints = Some(GED_constraints(args))]
    /\ UNCHANGED <<nlls, lay, gedx, garch>>

NextGED ==
    \/ \E args \in GedArgs : GedBounds(args)
    \/ \E args \in GedArgs : GedConstraints(args)

SpecGED == InitGED /\ [][NextGED]_vars

(***************************************************************************)
(* GARCH2.constraints: the inherited system with part of b overwritten.    *)
(***************************************************************************)
\* b[lo:hi] = val on an array: the slice is clipped to the array
SliceAssign(b, lo, hi, val) ==
    [i \in 1..Len(b) |->
        IF PyBound(lo, Len(b)) < i /\ i <= PyBound(hi, Len(b)) THEN val ELSE b[i]]

\* the systems the base class may return for orders (p, o, q): p+o+q+2 rows over
\* p+o+q+1 parameters, with the base model's entries or with all entries distinct
BaseSystems(p, o, q) ==
    LET k == p + o + q
    IN  {[a |-> a, b |-> b] :
            a \in {[i \in 1..(k + 2) |-> [j \in 1..(k + 1) |->
                        IF i = k + 2 THEN -1 ELSE IF i = j THEN 1 ELSE 0]],
                   [i \in 1..(k + 2) |-> [j \in 1..(k + 1) |-> 10 * i + j]]},
            b \in {[i \in 1..(k + 2) |-> IF i = k + 2 THEN -1 ELSE 0],
                   [i \in 1..(k + 2) |-> i + 1]}}

\* a, b = super().constraints(); b[1:(self.p+self.o+1)] = -one; return a, b
GARCH2_constraintsFromZero(p, o, q, base) ==
    [a |-> base.a, b |-> SliceAssign(base.b, 0, p + o + 1, -one)]
GARCH2_constraints(p, o, q, base) ==
    [a |-> base.a, b |-> SliceAssign(base.b, 1, p + o + 1, -one)]

InitGARCH ==
    /\ NllsUnused
    /\ lay = Unused
    /\ ged = Unused
    /\ gedx = 0
    /\ \E p \in 0..MaxOrder, o \in 0..MaxOrder, q \in 0..MaxOrder :
          garch = [used |-> TRUE, p |-> p, o |-> o, q |-> q,
                   base |-> None, result |-> None]

\* one call: the base class builds its system, GARCH2 relaxes it
GarchConstraints(base) ==
    /\ garch.used
    /\ garch' = [garch EXCEPT
                    !.base = Some(base),
                    !.result = Some(GARCH2_constraints(garch.p, garch.o, garch.q, base))]
    /\ UNCHANGED <<nlls, lay, ged, gedx>>

NextGARCH ==
    \E base \in BaseSystems(garch.p, garch.o, garch.q) : GarchConstraints(base)

SpecGARCH == InitGARCH /\ [][NextGARCH]_vars

(***************************************************************************)
(* Properties.                                                             *)
(***************************************************************************)
\* the instance's K (mean coefficients), E (extra shape parameters), N
KOf == Shape1(exog)
EOf == Len(latent_variables) - 1
NOf == Len(endog)

\* some column of the design matrix holds one value in every row
HasConstantColumn ==
    \E j \in 1..KOf : \A i \in 1..NOf : exog[i][j] = exog[1][j]

\* m is the sample mean of y:  m * N = sum(y)
IsMeanOf(m, y) == Mul(m, I(Len(y))) = SumSeq(y)

\* the square of a non-negative number
Square(x) ==
    CASE IsQ(x) -> Mul(x, x)
      [] x.k = "sqrt" -> Q(x.n, x.d)
      [] OTHER -> NaN

\* s is the (population) standard deviation of y:
\* s >= 0 and s^2 * N^2 = N * sum(y^2) - sum(y)^2
IsStdOf(s, y) ==
    LET n == I(Len(y))
        sumsq == SumSeq([i \in 1..Len(y) |-> Mul(y[i], y[i])])
    IN  /\ Leq(I(0), s)
        /\ Mul(Square(s), Mul(n, n)) = Sub(Mul(n, sumsq), Mul(SumSeq(y), SumSeq(y)))

\* C1: on an instance with K regressors and E extra parameters, _pick_params
\* splits a vector v of length K+1+E into beta = the first K entries, sigma =
\* entry K, extra = the last E entries, so that beta ++ [sigma] ++ extra = v;
\* a vector of any other length fails the length assertion.
C1_SplitPartitions ==
    (lay.used /\ lay.done) =>
        IF Len(lay.v) = lay.K + 1 + lay.E
        THEN /\ lay.r.exc = "none"
             /\ Len(lay.r.beta) = lay.K
             /\ Len(lay.r.extra) = lay.E
             /\ lay.r.beta = SubSeq(lay.v, 1, lay.K)
             /\ lay.r.sigma = lay.v[lay.K + 1]
             /\ lay.r.extra = SubSeq(lay.v, lay.K + 2, lay.K + 1 + lay.E)
             /\ lay.r.beta \o <<lay.r.sigma>> \o lay.r.extra = lay.v
        ELSE lay.r.exc = "AssertionError"

\* a split of <<0, 1, 2, 1>> with K = 2, E = 1 has been made
C1_Witness ==
    /\ lay.used /\ lay.done
    /\ lay.K = 2 /\ lay.E = 1 /\ lay.v = <<0, 1, 2, 1>>
    /\ lay.r.exc = "none"
    /\ lay.r.beta = <<0, 1>> /\ lay.r.sigma = 2 /\ lay.r.extra = <<1>>

\* the vectors fit validates: the caller's, or the defaults
EffStart(startArg) == IF startArg = None THEN DefaultStart ELSE startArg[1]
EffBounds(boundsArg) == IF boundsArg = None THEN DefaultBounds ELSE boundsArg[1]

\* C2: a fit call whose start vector or bounds (supplied or defaulted) do not
\* have K+1+E entries ends in an assertion error: the optimizer is not
\* invoked, the likelihood is not evaluated (no estimator state changes) and
\* nothing is returned.
C2_MismatchFailsBeforeOptimizer ==
    [][\A startArg \in StartArgs, boundsArg \in BoundsArgs :
          (/\ pc = "idle" /\ last'.op = "fit"
           /\ \/ Len(EffStart(startArg)) # KOf + 1 + EOf
              \/ Len(EffBounds(boundsArg)) # KOf + 1 + EOf
           /\ Fit(startArg, boundsArg, DefaultMaxIter))
          => /\ last' = [op |-> "fit", exc |-> "AssertionError", ret |-> None]
             /\ pc' = "idle"
             /\ opt' = NoOpt
             /\ UNCHANGED <<params, mean, innovation>>]_vars

\* a fit call has failed its assertion on an instance that holds an evaluation
C2_Witness ==
    /\ pc = "idle"
    /\ last.op = "fit" /\ last.exc = "AssertionError"
    /\ mean # None

\* C3: the start vector handed to the optimizer is, without start_params,
\* [0]*K + [std(endog)] + [1]*E with the first entry replaced by mean(endog)
\* when the design matrix has a constant column; a supplied start_params is
\* handed over as it is.
C3_DefaultStart ==
    pc = "optimizing" =>
        IF opt.given_start # None
        THEN opt.start_params = opt.given_start[1]
        ELSE /\ Len(opt.start_params) = KOf + 1 + EOf
             /\ \A i \in 1..KOf :
                   IF i = 1 /\ HasConstantColumn
                   THEN IsMeanOf(opt.start_params[i], endog)
                   ELSE opt.start_params[i] = I(0)
             /\ IsStdOf(opt.start_params[KOf + 1], endog)
             /\ \A i \in (KOf + 2)..(KOf + 1 + EOf) : opt.start_params[i] = I(1)

\* the optimizer runs from the defaults of an instance with a constant
\* regressor, a non-zero sample mean and a non-zero standard deviation
C3_Witness ==
    /\ pc = "optimizing" /\ opt.given_start = None
    /\ KOf = 2 /\ EOf = 1 /\ HasConstantColumn
    /\ endog = <<I(1), I(2)>>
    /\ opt.start_params = <<Q(3, 2), I(0), Q(1, 2), I(1)>>

\* C4: without bounds, the bounds are K+1+E pairs in the order [beta, sigma,
\* extra]: (-inf, +inf) for every coefficient and every extra parameter, and
\* (epsilon, +inf) with epsilon = 1e-7 > 0 at index K.
C4_DefaultBounds ==
    (pc = "optimizing" /\ opt.given_bounds = None) =>
        /\ Len(opt.bounds) = KOf + 1 + EOf
        /\ \A i \in 1..Len(opt.bounds) :
              IF i = KOf + 1
              THEN /\ opt.bounds[i] = <<Q(1, 10000000), PosInf>>
                   /\ Lt(I(0), opt.bounds[i][1])
              ELSE opt.bounds[i] = <<NegInf, PosInf>>

\* the optimizer runs under the default bounds of an instance with K = 2, E = 1
C4_Witness ==
    /\ pc = "optimizing" /\ opt.given_bounds = None
    /\ KOf = 2 /\ EOf = 1
    /\ opt.bounds[3][1] = epsilon

\* C5: residual degrees of freedom are N - K - (1+E) and model degrees of
\* freedom are (K+1+E) - (1 if the design matrix has a constant column, else
\* 0), at construction and after any predict, likelihood or fit call.
C5_DegreesOfFreedom ==
    pc \in {"idle", "optimizing"} =>
        /\ df_resid = NOf - KOf - (1 + EOf)
        /\ df_model = (KOf + 1 + EOf) - (IF HasConstantColumn THEN 1 ELSE 0)

\* a fit has returned on an instance with N = 2, K = 2 (one a constant), E = 1
C5_Witness ==
    /\ pc = "idle" /\ last.op = "fit" /\ last.exc = "none" /\ last.ret # None
    /\ NOf = 2 /\ KOf = 2 /\ EOf = 1 /\ HasConstantColumn
    /\ df_resid = -2 /\ df_model = 3

\* the one-sided inequalities A[i]*x >= b[i] of a constraint system in one unknown
Satisfies(c, x) == \A i \in 1..Len(c.A) : c.A[i][1] * x >= c.b[i]

\* C6: GeneralizedError2.bounds() returns exactly [(0, 100)] and constraints()
\* returns A = [[1], [-1]], b = [0, -100] = [lower, -upper], whatever the
\* arguments and however often called; the two inequalities hold exactly for
\* the x with 0 <= x <= 100.
C6_GedBoundsAndConstraints ==
    ged.used =>
        /\ ged.bounds # None => ged.bounds[1] = <<(<<0, 100>>)>>
        /\ ged.constraints # None =>
              /\ ged.constraints[1].A = <<(<<1>>), (<<-1>>)>>
              /\ ged.constraints[1].b = <<0, -100>>
              /\ Satisfies(ged.constraints[1], gedx) <=> (0 <= gedx /\ gedx <= 100)
        /\ (ged.bounds # None /\ ged.constraints # None) =>
              ged.constraints[1].b =
                  <<ged.bounds[1][1][1], -ged.bounds[1][1][2]>>

\* both methods have been called and the trial value sits on the upper bound
C6_Witness ==
    /\ ged.used /\ ged.bounds # None /\ ged.constraints # None
    /\ gedx = 100
    /\ Satisfies(ged.constraints[1], gedx)

\* C7: GARCH2.constraints returns the base system with exactly b[1..p+o]
\* (0-based) set to -1: A, b[0], every b[j] with j > p+o and both shapes are
\* the base's, and with p+o = 0 the system is the base's.
C7_RelaxedConstraints ==
    (garch.used /\ garch.result # None) =>
        LET base == garch.base[1]
            res == garch.result[1]
        IN  /\ res.a = base.a
            /\ Len(res.b) = Len(base.b)
            /\ \A i \in 1..Len(base.b) :
                  IF 1 <= i - 1 /\ i - 1 <= garch.p + garch.o
                  THEN res.b[i] = -1
                  ELSE res.b[i] = base.b[i]
            /\ garch.p + garch.o = 0 => res = base

\* the relaxation of a base system with distinct entries, orders (1, 1, 1)
C7_Witness ==
    /\ garch.used /\ garch.result # None
    /\ garch.p = 1 /\ garch.o = 1 /\ garch.q = 1
    /\ garch.base[1].b = <<2, 3, 4, 5, 6>>
    /\ garch.result[1].b = <<2, -1, -1, 5, 6>>

\* C8: the Fitted Result's named-parameter mapping maps each mean-process
\* regressor to the corresponding entry of the point estimate the optimizer
\* returned, and the recorded count is the size of the mapping.
C8_NamedParamsAreEstimates ==
    (pc = "idle" /\ last.op = "fit" /\ last.ret # None) =>
        LET f == last.ret[1]
        IN  /\ \A j \in 1..KOf : f.named_params[exog_names[j]] = f.params[j]
            /\ f.num_params = Cardinality(DOMAIN f.named_params)

\* C9: the stored mean and innovation are those of the stored params:
\* mean = exog . beta(params) and innovation = (endog - mean) / sigma(params),
\* from a likelihood evaluation until the next one.
C9_StoredStateConsistent ==
    (pc \in {"idle", "optimizing"} /\ mean # None) =>
        /\ params # None
        /\ mean[1] = Dot(exog, SubSeq(params[1], 1, KOf))
        /\ innovation[1] =
              [i \in 1..NOf |-> Div(Sub(endog[i], mean[1][i]), params[1][KOf + 1])]

\* C10: with neither start_params nor bounds, every entry of the start vector
\* handed to the optimizer lies within its (lower, upper) pair.
C10_DefaultStartFeasible ==
    (pc = "optimizing" /\ opt.given_start = None /\ opt.given_bounds = None) =>
        \A i \in 1..Len(opt.start_params) :
            /\ Leq(opt.lb[i], opt.start_params[i])
            /\ Leq(opt.start_params[i], opt.ub[i])

====
